---- MODULE Spec2Model ----
(***************************************************************************)
(* A model of hoomd_polymers.base.system.System: the constructor's         *)
(* molecule aggregation, apply_forcefield (typing, hydrogen removal,       *)
(* charge post-processing, snapshot creation), set_target_box with         *)
(* _calculate_L, and the hoomd_snapshot / hoomd_forcefield accessors.      *)
(*                                                                         *)
(* Real numbers are decimal numbers [m |-> mantissa, e |-> exponent]       *)
(* standing for m * 10^e, kept normalised (no trailing zero in m).         *)
(* Atom masses are integers in thousandths of an amu and atom charges      *)
(* are integers in 840ths of an elementary charge.                         *)
(***************************************************************************)
EXTENDS Integers, Sequences, FiniteSets, TLC

VARIABLES
    phase,             \* "new" | "constructed": whether __init__ has run
    arg,               \* the arguments the caller gives to __init__
    molecules,         \* self.molecules
    system,            \* self.system, the assembly built by _build_system
    density,           \* self.density
    target_box,        \* self.target_box
    typed_system,      \* self.typed_system
    hoomd_objects,     \* self._hoomd_objects
    reference_values,  \* self._reference_values
    last_apply,        \* the arguments of the latest apply_forcefield call
    last_box,          \* the arguments of the latest set_target_box call
    ret,               \* how the latest call ended
    calls,             \* successful apply_forcefield and set_target_box
                       \* calls so far, each counted up to two
    build_mass         \* what a read of self.mass gives _build_system

vars == <<phase, arg, molecules, system, density, target_box, typed_system,
          hoomd_objects, reference_values, last_apply, last_box, ret, calls,
          build_mass>>

\* Python's None.
None == [kind |-> "None"]

----------------------------------------------------------------------------
(* Decimal arithmetic.                                                     *)

RECURSIVE Pow10(_)
Pow10(k) == IF k <= 0 THEN 1 ELSE 10 * Pow10(k - 1)

RECURSIVE Norm(_, _)
Norm(m, e) ==
    IF m = 0 THEN [m |-> 0, e |-> 0]
    ELSE IF m % 10 = 0 THEN Norm(m \div 10, e + 1)
    ELSE [m |-> m, e |-> e]

Dec(m, e) == Norm(m, e)

DMul(a, b) == Norm(a.m * b.m, a.e + b.e)

\* a / b: exact when the mantissas divide, else cut after three more digits.
DDiv(a, b) ==
    IF a.m % b.m = 0
    THEN Norm(a.m \div b.m, a.e - b.e)
    ELSE Norm((a.m * 1000) \div b.m, a.e - b.e - 3)

DAdd(a, b) ==
    LET e == IF a.e < b.e THEN a.e ELSE b.e
    IN  Norm(a.m * Pow10(a.e - e) + b.m * Pow10(b.e - e), e)

RECURSIVE IPow(_, _)
IPow(r, n) == IF n = 0 THEN 1 ELSE r * IPow(r, n - 1)

\* The largest r with r^n <= x, searched upwards from r.
RECURSIVE IRootFrom(_, _, _)
IRootFrom(x, n, r) ==
    IF IPow(r + 1, n) > x THEN r ELSE IRootFrom(x, n, r + 1)

\* a ** (1/n): the exponent is first brought to a multiple of n.
DRoot(a, n) ==
    LET j == a.e % n
    IN  Norm(IRootFrom(a.m * Pow10(j), n, 0), (a.e - j) \div n)

\* numpy.prod of a sequence of decimals.
RECURSIVE DProd(_)
DProd(s) == IF s = <<>> THEN Dec(1, 0) ELSE DMul(Head(s), DProd(Tail(s)))

\* sum() of a sequence of decimals.
RECURSIVE DSum(_)
DSum(s) == IF s = <<>> THEN Dec(0, 0) ELSE DAdd(Head(s), DSum(Tail(s)))

----------------------------------------------------------------------------
(* Box sizing: mass, _calculate_L, set_target_box.                         *)

AmuToGram == Dec(166054, -29)   \* 1.66054e-24
NmToCm    == Dec(1, -7)         \* 1e-7
CmToNm    == Dec(1, 7)          \* 1e7

\* The mass property.
mass ==
    IF system = None
    THEN DSum([i \in 1..Len(molecules) |-> molecules[i].mass])
    ELSE system.mass

\* _calculate_L without the conversion from cm back to nm.
CalculateLNoBackConversion(fixed_L) ==
    LET M   == DMul(mass, AmuToGram)
        vol == DDiv(M, density)
    IN  IF fixed_L = None
        THEN DRoot(vol, 3)
        ELSE LET q == DDiv(vol, DProd(fixed_L.items))
             IN  IF Len(fixed_L.items) = 1 THEN DRoot(q, 2) ELSE q

\* _calculate_L taking the square root whenever edges are fixed.
CalculateLAlwaysRoot(fixed_L) ==
    LET M   == DMul(mass, AmuToGram)
        vol == DDiv(M, density)
        L   == IF fixed_L = None
               THEN DRoot(vol, 3)
               ELSE DRoot(DDiv(vol, DProd(fixed_L.items)), 2)
    IN  DMul(L, CmToNm)

\* _calculate_L(fixed_L): fixed_L is None or a sequence of lengths in cm.
_calculate_L(fixed_L) ==
    LET M   == DMul(mass, AmuToGram)
        vol == DDiv(M, density)
        L   == IF fixed_L = None
               THEN DRoot(vol, 3)
               ELSE LET q == DDiv(vol, DProd(fixed_L.items))
                    IN  IF Len(fixed_L.items) = 1 THEN DRoot(q, 2) ELSE q
    IN  DMul(L, CmToNm)

\* constraints[np.where(constraints != None)]: a new array holding the
\* selected elements in order.
Supplied(c) == c # None
WhereNotNone(constraints) == SelectSeq(constraints, Supplied)

\* fixed_L *= 1e-7 on a view of the constraints array: the scaling reaches
\* the constraints themselves.
ScaleInPlaceView(constraints, fixed) ==
    [constraints |-> [i \in 1..Len(constraints) |->
                        IF constraints[i] = None THEN None
                        ELSE DMul(constraints[i], NmToCm)],
     fixed_L     |-> [i \in 1..Len(fixed) |-> DMul(fixed[i], NmToCm)]]

\* fixed_L *= 1e-7: scales the elements of fixed_L, which is a copy, so
\* the constraints array keeps the caller's values.
ScaleInPlace(constraints, fixed) ==
    [constraints |-> constraints,
     fixed_L     |-> [i \in 1..Len(fixed) |-> DMul(fixed[i], NmToCm)]]

\* constraints[np.where(constraints == None)] = L
FillNone(constraints, L) ==
    [i \in 1..Len(constraints) |->
        IF constraints[i] = None THEN L ELSE constraints[i]]

\* Python truthiness of a constraint: None and 0 are false.
Truthy(c) == c # None /\ c.m # 0

\* set_target_box filling only the axes an earlier call left unset.
TargetBoxKeepEarlier(x, y, z) ==
    IF target_box # None THEN target_box.items
    ELSE IF ~(Truthy(x) \/ Truthy(y) \/ Truthy(z))
    THEN LET L == _calculate_L(None) IN <<L, L, L>>
    ELSE LET constraints == <<x, y, z>>
             scaled == ScaleInPlace(constraints, WhereNotNone(constraints))
             L == _calculate_L([kind |-> "array", items |-> scaled.fixed_L])
         IN  FillNone(scaled.constraints, L)

\* The value set_target_box(x, y, z) stores in target_box.
TargetBoxOf(x, y, z) ==
    IF ~(Truthy(x) \/ Truthy(y) \/ Truthy(z))
    THEN LET L == _calculate_L(None) IN <<L, L, L>>
    ELSE LET constraints == <<x, y, z>>
             scaled == ScaleInPlace(constraints, WhereNotNone(constraints))
             L == _calculate_L([kind |-> "array", items |-> scaled.fixed_L])
         IN  FillNone(scaled.constraints, L)

----------------------------------------------------------------------------
(* Typed topologies: atoms, bonds, hydrogen removal, charges.              *)

\* One elementary charge, in the model's charge unit.
Charge(k) == k * 840

\* a.mass == 1.008, in thousandths of an amu.
HydrogenMass == 1008

\* The elements of a set of integers in ascending order.
RECURSIVE SortedSeq(_)
SortedSeq(S) ==
    IF S = {} THEN <<>>
    ELSE LET lo == CHOOSE x \in S : \A y \in S : x <= y
         IN  <<lo>> \o SortedSeq(S \ {lo})

\* Atom.bond_partners: the atoms bonded to atom i, in index order.
bond_partners(top, i) ==
    SortedSeq({j \in 1..Len(top.atoms) : {i, j} \in top.bonds})

\* [a for a in atoms if a.element == 1] and [... if a.mass == 1.008]
HydrogensByElement(top) ==
    SortedSeq({i \in 1..Len(top.atoms) : top.atoms[i].atomic_number = 1})
HydrogensByMass(top) ==
    SortedSeq({i \in 1..Len(top.atoms) : top.atoms[i].mass = HydrogenMass})

\* The removal step identifying hydrogens by element and by mass at once.
HydrogensEitherWay(top) ==
    SortedSeq({i \in 1..Len(top.atoms) :
                  \/ top.atoms[i].atomic_number = 1
                  \/ top.atoms[i].mass = HydrogenMass})

\* The hydrogens the removal step identifies: by element, else by mass.
Hydrogens(top) ==
    IF Len(HydrogensByElement(top)) = 0
    THEN HydrogensByMass(top)
    ELSE HydrogensByElement(top)

\* The loop "for h in hydrogens": each hydrogen is marked and its mass and
\* charge are added to its first bond partner. A hydrogen with no bond
\* partner raises IndexError, leaving the atoms as modified so far.
RECURSIVE MergeHydrogens(_, _)
MergeHydrogens(top, hs) ==
    IF hs = <<>> THEN [top |-> top, raised |-> FALSE]
    ELSE LET h  == Head(hs)
             t1 == [top EXCEPT !.atoms[h].atomic_number = 1]
             bp == bond_partners(t1, h)
         IN  IF bp = <<>> THEN [top |-> t1, raised |-> TRUE]
             ELSE LET b  == bp[1]
                      t2 == [t1 EXCEPT
                                !.atoms[b].mass = @ + t1.atoms[h].mass,
                                !.atoms[b].charge = @ + t1.atoms[h].charge]
                  IN  MergeHydrogens(t2, Tail(hs))

\* Structure.strip(mask): the atoms whose mask is false, in order, and the
\* bonds among them, renumbered.
strip(top, mask) ==
    LET kept == SortedSeq({i \in 1..Len(top.atoms) : ~mask[i]})
        NewIndex(i) == CHOOSE k \in 1..Len(kept) : kept[k] = i
    IN  [atoms |-> [k \in 1..Len(kept) |-> top.atoms[kept[k]]],
         bonds |-> {{NewIndex(i) : i \in b} :
                      b \in {c \in top.bonds : \A i \in c : ~mask[i]}}]

\* The remove_hydrogens block raising when no hydrogen is found.
RemoveHydrogensStrict(top) ==
    LET hs == Hydrogens(top)
        m  == MergeHydrogens(top, hs)
    IN  IF m.raised \/ Len(hs) = 0
        THEN [top |-> m.top, raised |-> TRUE, warned |-> FALSE]
        ELSE [top |-> strip(m.top, [i \in 1..Len(m.top.atoms) |->
                                      m.top.atoms[i].atomic_number = 1]),
              raised |-> FALSE,
              warned |-> FALSE]

\* The remove_hydrogens block of apply_forcefield.
RemoveHydrogens(top) ==
    LET hs == Hydrogens(top)
        m  == MergeHydrogens(top, hs)
    IN  IF m.raised
        THEN [top |-> m.top, raised |-> TRUE, warned |-> FALSE]
        ELSE [top |-> strip(m.top, [i \in 1..Len(m.top.atoms) |->
                                      m.top.atoms[i].atomic_number = 1]),
              raised |-> FALSE,
              warned |-> Len(hs) = 0]

RECURSIVE ISum(_)
ISum(s) == IF s = <<>> THEN 0 ELSE Head(s) + ISum(Tail(s))

IAbs(x) == IF x < 0 THEN -x ELSE x

Charges(top) == [i \in 1..Len(top.atoms) |-> top.atoms[i].charge]
Masses(top) == [i \in 1..Len(top.atoms) |-> top.atoms[i].mass]

\* hoomd_polymers.utils.scale_charges: each charge gives up its share,
\* proportional to its magnitude, of the net charge.
scale_charges(charges, n_particles) ==
    LET net_charge == ISum(charges)
        abs_charge == ISum([i \in 1..Len(charges) |-> IAbs(charges[i])])
    IN  IF abs_charge = 0 THEN charges
        ELSE [i \in 1..Len(charges) |->
                charges[i] - (IAbs(charges[i]) * net_charge) \div abs_charge]

\* The charge blocks with make_charge_neutral taking precedence.
AdjustChargesNeutralFirst(top, remove_charges, make_charge_neutral) ==
    IF make_charge_neutral
    THEN LET new_charges == scale_charges(Charges(top), Len(top.atoms))
         IN  [top EXCEPT !.atoms =
                 [i \in 1..Len(top.atoms) |->
                     [top.atoms[i] EXCEPT !.charge = new_charges[i]]]]
    ELSE IF remove_charges
    THEN [top EXCEPT !.atoms =
             [i \in 1..Len(top.atoms) |-> [top.atoms[i] EXCEPT !.charge = 0]]]
    ELSE top

\* The remove_charges and make_charge_neutral blocks of apply_forcefield.
AdjustCharges(top, remove_charges, make_charge_neutral) ==
    LET t1 == IF remove_charges
              THEN [top EXCEPT !.atoms =
                        [i \in 1..Len(top.atoms) |->
                            [top.atoms[i] EXCEPT !.charge = 0]]]
              ELSE top
    IN  IF make_charge_neutral /\ ~remove_charges
        THEN LET new_charges == scale_charges(Charges(t1), Len(t1.atoms))
             IN  [t1 EXCEPT !.atoms =
                     [i \in 1..Len(t1.atoms) |->
                         [t1.atoms[i] EXCEPT !.charge = new_charges[i]]]]
        ELSE t1

----------------------------------------------------------------------------
(* apply_forcefield.                                                       *)

\* forcefield.apply(structure, use_residue_map): the typing engine gives
\* every atom of the assembly its atomic number, mass and charge, or fails.
ForcefieldApply(forcefield, structure, use_residue_map) ==
    [atoms |-> [i \in 1..Len(structure.atoms) |->
                  [atomic_number |-> structure.atoms[i].element,
                   mass   |-> structure.atoms[i].mass,
                   charge |-> IF structure.atoms[i].element = 6
                              THEN Charge(-2) ELSE Charge(1)]],
     bonds |-> structure.bonds]

\* create_hoomd_forcefield handing back the objects of an earlier call
\* when there are some.
CreateHoomdForcefieldOnce(structure) ==
    IF hoomd_objects # None
    THEN [init_snap  |-> hoomd_objects.init_snap,
          forcefield |-> hoomd_objects.forcefield,
          refs       |-> reference_values]
    ELSE [init_snap  |-> [kind |-> "snapshot", structure |-> structure],
          forcefield |-> [kind |-> "forcefield",
                          n_particles |-> Len(structure.atoms)],
          refs       |-> [kind |-> "refs",
                          n_particles |-> Len(structure.atoms)]]

\* create_hoomd_forcefield(structure, r_cut, auto_scale): the snapshot, the
\* force-field parameter set and the reference values of a structure.
create_hoomd_forcefield(structure) ==
    [init_snap  |-> [kind |-> "snapshot", structure |-> structure],
     forcefield |-> [kind |-> "forcefield",
                     n_particles |-> Len(structure.atoms)],
     refs       |-> [kind |-> "refs", n_particles |-> Len(structure.atoms)]]

\* The per-residue map used for a System of at most one molecule.
UseResidueMapAtMostOne == Len(molecules) <= 1

use_residue_map == Len(molecules) = 1

\* apply_forcefield creating the snapshot and the force field from the
\* typed topology as forcefield.apply returned it, before the hydrogen
\* removal and the charge blocks.
ApplyForcefieldCreateFirst(forcefield, remove_hydrogens, remove_charges, make_charge_neutral) ==
    LET unchanged == [typed_system     |-> typed_system,
                      hoomd_objects    |-> hoomd_objects,
                      reference_values |-> reference_values,
                      warned           |-> FALSE]
    IN
    IF forcefield.name = "bad"
    THEN unchanged @@ [outcome |-> "ForcefieldError"]
    ELSE
    LET typed == ForcefieldApply(forcefield, system, use_residue_map)
        made  == create_hoomd_forcefield(typed)
        h     == IF remove_hydrogens THEN RemoveHydrogens(typed)
                 ELSE [top |-> typed, raised |-> FALSE, warned |-> FALSE]
    IN
    IF forcefield.name = "incomplete"
    THEN [unchanged EXCEPT !.typed_system = typed] @@ [outcome |-> "CreateError"]
    ELSE
    IF h.raised
    THEN [unchanged EXCEPT !.typed_system = h.top] @@ [outcome |-> "IndexError"]
    ELSE [typed_system     |-> AdjustCharges(h.top, remove_charges,
                                             make_charge_neutral),
          hoomd_objects    |-> [kind |-> "list", init_snap |-> made.init_snap,
                                forcefield |-> made.forcefield],
          reference_values |-> made.refs,
          warned           |-> h.warned,
          outcome          |-> "ok"]

\* The state apply_forcefield leaves and how it ends. The "bad" force field
\* fails in forcefield.apply; the "incomplete" one types the structure, and
\* create_hoomd_forcefield then fails on it.
ApplyForcefieldResult(forcefield, remove_hydrogens, remove_charges, make_charge_neutral) ==
    LET unchanged == [typed_system     |-> typed_system,
                      hoomd_objects    |-> hoomd_objects,
                      reference_values |-> reference_values,
                      warned           |-> FALSE]
    IN
    IF forcefield.name = "bad"
    THEN unchanged @@ [outcome |-> "ForcefieldError"]
    ELSE
    LET typed == ForcefieldApply(forcefield, system, use_residue_map)
        h     == IF remove_hydrogens THEN RemoveHydrogens(typed)
                 ELSE [top |-> typed, raised |-> FALSE, warned |-> FALSE]
    IN
    IF h.raised
    THEN [unchanged EXCEPT !.typed_system = h.top] @@ [outcome |-> "IndexError"]
    ELSE
    LET final == AdjustCharges(h.top, remove_charges, make_charge_neutral)
        made  == create_hoomd_forcefield(final)
    IN
    IF forcefield.name = "incomplete"
    THEN [unchanged EXCEPT !.typed_system = final, !.warned = h.warned]
         @@ [outcome |-> "CreateError"]
    ELSE [typed_system     |-> final,
          hoomd_objects    |-> [kind |-> "list", init_snap |-> made.init_snap,
                                forcefield |-> made.forcefield],
          reference_values |-> made.refs,
          warned           |-> h.warned,
          outcome          |-> "ok"]

\* A count of calls that stops at two.
CountUp(n) == IF n < 2 THEN n + 1 ELSE n

Forcefields == {[name |-> "polar"], [name |-> "incomplete"], [name |-> "bad"]}

\* The calls made: every flag combination with a force field that types
\* the structure, the default flags with one that does not.
ApplyCalls ==
    {[kind |-> "call", forcefield |-> f, remove_hydrogens |-> rh,
      remove_charges |-> rc, make_charge_neutral |-> mn] :
        f \in Forcefields \ {[name |-> "bad"]},
        rh \in BOOLEAN, rc \in BOOLEAN, mn \in BOOLEAN}
    \cup {[kind |-> "call", forcefield |-> [name |-> "bad"],
           remove_hydrogens |-> FALSE, remove_charges |-> FALSE,
           make_charge_neutral |-> FALSE]}

apply_forcefield ==
    /\ phase = "constructed"
    /\ \E call \in ApplyCalls :
         LET r == ApplyForcefieldResult(call.forcefield,
                      call.remove_hydrogens, call.remove_charges,
                      call.make_charge_neutral)
         IN  /\ typed_system' = r.typed_system
             /\ hoomd_objects' = r.hoomd_objects
             /\ reference_values' = r.reference_values
             /\ last_apply' = call @@ [use_residue_map |-> use_residue_map,
                                       outcome |-> r.outcome]
             /\ ret' = [op |-> "apply_forcefield", outcome |-> r.outcome,
                        warned |-> r.warned]
             /\ calls' = IF r.outcome = "ok"
                         THEN [calls EXCEPT !.applied = CountUp(@)]
                         ELSE calls
    /\ UNCHANGED <<phase, arg, molecules, system, density, target_box,
                   last_box, build_mass>>

----------------------------------------------------------------------------
(* set_target_box and the accessors.                                       *)

\* set_target_box dropping the stored hoomd objects with the old box.
SetTargetBoxDropsObjects(Ls) ==
    /\ phase = "constructed"
    /\ \E x \in Ls \cup {None}, y \in Ls \cup {None}, z \in Ls \cup {None} :
         /\ target_box' = [kind |-> "array", items |-> TargetBoxOf(x, y, z)]
         /\ last_box' = [kind |-> "call", constraints |-> <<x, y, z>>]
    /\ ret' = [op |-> "set_target_box", outcome |-> "ok", warned |-> FALSE]
    /\ calls' = [calls EXCEPT !.boxed = CountUp(@)]
    /\ hoomd_objects' = None
    /\ UNCHANGED <<phase, arg, molecules, system, density, typed_system,
                   reference_values, last_apply, build_mass>>

set_target_box(Ls) ==
    /\ phase = "constructed"
    /\ \E x \in Ls \cup {None}, y \in Ls \cup {None}, z \in Ls \cup {None} :
         /\ target_box' = [kind |-> "array", items |-> TargetBoxOf(x, y, z)]
         /\ last_box' = [kind |-> "call", constraints |-> <<x, y, z>>]
    /\ ret' = [op |-> "set_target_box", outcome |-> "ok", warned |-> FALSE]
    /\ calls' = [calls EXCEPT !.boxed = CountUp(@)]
    /\ UNCHANGED <<phase, arg, molecules, system, density, typed_system,
                   hoomd_objects, reference_values, last_apply, build_mass>>

\* The depth of nested calls at which Python raises RecursionError.
RecursionLimit == 3

\* The hoomd_snapshot getter.
HoomdSnapshotGetter ==
    IF hoomd_objects = None THEN "ValueError" ELSE "ok"

\* The hoomd_forcefield getter at a call depth: its condition reads
\* self.hoomd_forcefield, which runs the getter again.
RECURSIVE HoomdForcefieldGetter(_)
HoomdForcefieldGetter(depth) ==
    IF depth > RecursionLimit THEN "RecursionError"
    ELSE LET condition == HoomdForcefieldGetter(depth + 1)
         IN  IF condition # "ok" THEN condition
             ELSE HoomdForcefieldGetter(depth + 1)

hoomd_snapshot ==
    /\ phase = "constructed"
    /\ ret' = [op |-> "hoomd_snapshot", outcome |-> HoomdSnapshotGetter,
               warned |-> FALSE]
    /\ UNCHANGED <<phase, arg, molecules, system, density, target_box,
                   typed_system, hoomd_objects, reference_values,
                   last_apply, last_box, calls, build_mass>>

hoomd_forcefield ==
    /\ phase = "constructed"
    /\ ret' = [op |-> "hoomd_forcefield",
               outcome |-> HoomdForcefieldGetter(1), warned |-> FALSE]
    /\ UNCHANGED <<phase, arg, molecules, system, density, target_box,
                   typed_system, hoomd_objects, reference_values,
                   last_apply, last_box, calls, build_mass>>

----------------------------------------------------------------------------
(* The constructor.                                                        *)

\* Lines 41-48: the molecules of a nested list are appended list by list;
\* a Molecule gives its own molecules; any other argument leaves [].
RECURSIVE ExtendAll(_, _)
ExtendAll(acc, lists) ==
    IF lists = <<>> THEN acc
    ELSE ExtendAll(acc \o Head(lists), Tail(lists))

\* The aggregation putting each list in front of the ones before it.
RECURSIVE PrependAll(_, _)
PrependAll(acc, lists) ==
    IF lists = <<>> THEN acc
    ELSE PrependAll(Head(lists) \o acc, Tail(lists))

AggregatePrepend(molecule) ==
    IF molecule.shape = "List" THEN PrependAll(<<>>, molecule.items)
    ELSE IF molecule.shape = "Molecule" THEN molecule.molecules
    ELSE <<>>

Aggregate(molecule) ==
    IF molecule.shape = "List" THEN ExtendAll(<<>>, molecule.items)
    ELSE IF molecule.shape = "Molecule" THEN molecule.molecules
    ELSE <<>>

\* An attribute the instance does not have yet.
Unset == [kind |-> "Unset"]

\* The mass property read on an instance whose system attribute is sys and
\* whose molecules are mols: "if not self.system" needs the attribute.
MassProperty(sys, mols) ==
    IF sys = Unset THEN [outcome |-> "AttributeError", value |-> None]
    ELSE IF sys = None
    THEN [outcome |-> "ok",
          value |-> DSum([i \in 1..Len(mols) |-> mols[i].mass])]
    ELSE [outcome |-> "ok", value |-> sys.mass]

\* __init__: self.system is first assigned at line 50, from the value
\* _build_system returns, so _build_system runs without the attribute.
__init__ ==
    /\ phase = "new"
    /\ phase' = "constructed"
    /\ density' = arg.density
    /\ target_box' = None
    /\ typed_system' = None
    /\ hoomd_objects' = None
    /\ reference_values' = None
    /\ molecules' = Aggregate(arg.molecule)
    /\ system' = arg.build
    /\ build_mass' = MassProperty(Unset, Aggregate(arg.molecule))
    /\ ret' = [op |-> "__init__", outcome |-> "ok", warned |-> FALSE]
    /\ UNCHANGED <<arg, last_apply, last_box, calls>>

n_molecules == Len(molecules)
n_particles == ISum([i \in 1..Len(molecules) |-> molecules[i].n_particles])

----------------------------------------------------------------------------
(* The callers' inputs.                                                    *)

MaxAtoms == 2   \* atoms in an assembly
MaxLists == 2   \* molecule lists in a nested molecule argument
MaxMols  == 2   \* molecules in one molecule list

SeqsUpTo(S, n) == UNION {[1..k -> S] : k \in 0..n}

\* Carbon, hydrogen, and a hydrogen known by its mass only.
AtomKinds == {[element |-> 6, mass |-> 12011],
              [element |-> 1, mass |-> HydrogenMass],
              [element |-> 0, mass |-> HydrogenMass]}

\* The assemblies _build_system may return: atoms and the bonds between
\* them.
Topologies(n) ==
    UNION {{[atoms |-> a, bonds |-> b] :
              b \in SUBSET {{i, j} : i \in 1..Len(a), j \in 1..Len(a)}
                   \cap SUBSET {c \in SUBSET (1..Len(a)) : Cardinality(c) = 2}}
           : a \in SeqsUpTo(AtomKinds, n)}

MolA == [name |-> "A", n_particles |-> 2, mass |-> Dec(13019, -3)]
MolB == [name |-> "B", n_particles |-> 1, mass |-> Dec(12011, -3)]
Mols == {MolA, MolB}

MoleculeArgs ==
       {[shape |-> "Molecule", molecules |-> ms] : ms \in SeqsUpTo(Mols, MaxMols)}
  \cup {[shape |-> "List", items |-> ls] :
          ls \in SeqsUpTo(SeqsUpTo(Mols, MaxMols), MaxLists)}
  \cup {[shape |-> "Other"]}

\* Mass (amu) and density (g/cm^3) pairs whose volume is 64 or 4096 nm^3.
BoxCases == {<<Dec(64, 3),   Dec(166054, -5)>>,
             <<Dec(128, 3),  Dec(332108, -5)>>,
             <<Dec(4096, 3), Dec(166054, -5)>>,
             <<Dec(8192, 3), Dec(332108, -5)>>}

\* Box lengths (nm) a caller fixes.
Lengths == {Dec(4, 0), Dec(16, 0)}

\* A carbon with one hydrogen, and a hydrogen bonded to nothing.
CH == [atoms |-> <<[element |-> 6, mass |-> 12011],
                   [element |-> 1, mass |-> HydrogenMass]>>,
       bonds |-> {{1, 2}}]
LoneH == [atoms |-> <<[element |-> 1, mass |-> HydrogenMass]>>, bonds |-> {}]

TwoLists == [shape |-> "List", items |-> <<<<MolA>>, <<MolB>>>>]
OneMolecule == [shape |-> "Molecule", molecules |-> <<MolA>>]

InitOver(Args) ==
    /\ phase = "new"
    /\ arg \in Args
    /\ molecules = <<>>
    /\ system = None
    /\ density = None
    /\ target_box = None
    /\ typed_system = None
    /\ hoomd_objects = None
    /\ reference_values = None
    /\ last_apply = None
    /\ last_box = None
    /\ ret = [op |-> "new", outcome |-> "ok", warned |-> FALSE]
    /\ calls = [applied |-> 0, boxed |-> 0]
    /\ build_mass = None

\* The constructor's arguments: the molecule argument, the density, and the
\* assembly _build_system returns with the mass that assembly reports.
Args(molecule_args, cases, topologies) ==
    {[molecule |-> m, density |-> c[2], build |-> t @@ [mass |-> c[1]]] :
        m \in molecule_args, c \in cases, t \in topologies}

OneCase == {<<Dec(64, 3), Dec(166054, -5)>>}

\* The life of one System: every operation, on two assemblies.
Init == InitOver(Args({TwoLists, OneMolecule}, OneCase, {CH})
                 \cup Args({TwoLists}, OneCase, {LoneH}))
Next ==
    \/ __init__
    \/ apply_forcefield
    \/ set_target_box({Dec(4, 0)})
    \/ hoomd_snapshot
    \/ hoomd_forcefield
Spec == Init /\ [][Next]_vars

\* Force-field application over every assembly of up to MaxAtoms atoms.
InitFF == InitOver(Args({TwoLists}, OneCase, Topologies(MaxAtoms)))
NextFF ==
    \/ __init__
    \/ apply_forcefield
SpecFF == InitFF /\ [][NextFF]_vars

\* Box sizing over the masses, densities and fixed lengths.
InitBox == InitOver(Args({OneMolecule}, BoxCases, {CH}))
NextBox ==
    \/ __init__
    \/ set_target_box(Lengths)
SpecBox == InitBox /\ [][NextBox]_vars

\* Construction over the molecule arguments.
InitArgs == InitOver(Args(MoleculeArgs, OneCase, {CH}))
NextArgs ==
    \/ __init__
    \/ set_target_box({})
SpecArgs == InitArgs /\ [][NextArgs]_vars

\* Construction from none, one, two and three molecules, and
\* apply_forcefield on the result.
CountedArgs ==
    {[shape |-> "Other"],
     [shape |-> "List", items |-> <<>>],
     [shape |-> "Molecule", molecules |-> <<MolA>>],
     [shape |-> "List", items |-> <<<<MolB>>>>],
     [shape |-> "Molecule", molecules |-> <<MolA, MolB>>],
     [shape |-> "List", items |-> <<<<MolA, MolB>>, <<MolA>>>>]}
InitMap == InitOver(Args(CountedArgs, OneCase, {CH}))
NextMap ==
    \/ __init__
    \/ apply_forcefield
SpecMap == InitMap /\ [][NextMap]_vars

----------------------------------------------------------------------------
(* The claims.                                                             *)

Applied == ret.op = "apply_forcefield"

\* What forcefield.apply returned in the latest apply_forcefield call.
LastTyped ==
    ForcefieldApply(last_apply.forcefield, system, last_apply.use_residue_map)

\* C1: in every state of a constructed System, also after an
\* apply_forcefield call that aborted, typed_system, the stored hoomd
\* objects and the stored reference values are all absent or all present.
C1_TypedStateAllOrNone ==
    phase = "constructed" =>
        \/ typed_system = None /\ hoomd_objects = None
             /\ reference_values = None
        \/ typed_system # None /\ hoomd_objects # None
             /\ reference_values # None

\* C2: while apply_forcefield has never succeeded, a read of hoomd_snapshot
\* and a read of hoomd_forcefield each end with the ValueError that says
\* no force field has been applied (the UnappliedForceFieldError).
C2_ReadsBeforeApplyRaise ==
    (hoomd_objects = None /\ ret.op \in {"hoomd_snapshot", "hoomd_forcefield"})
        => ret.outcome = "ValueError"

\* C3: when apply_forcefield has returned from a call with
\* remove_hydrogens, the
\* masses of the typed topology sum to what they summed to before the
\* removal, and so do the charges when no charge flag was given.
C3_HydrogenRemovalConserves ==
    (Applied /\ last_apply.remove_hydrogens /\ ret.outcome = "ok")
    => /\ ISum(Masses(typed_system)) = ISum(Masses(LastTyped))
       /\ (~last_apply.remove_charges /\ ~last_apply.make_charge_neutral)
            => ISum(Charges(typed_system)) = ISum(Charges(LastTyped))

\* C4: construction never completes for a molecule argument that is
\* neither a Molecule nor a nested list.
C4_InvalidInputRejected ==
    phase = "constructed" => arg.molecule.shape \in {"Molecule", "List"}

\* M * 1.66054e-24, the mass in grams, and the volume (cm^3) of a box of
\* edges given in nm.
MassInGrams == DMul(mass, AmuToGram)
BoxVolume(box) == DMul(DProd(box), Dec(1, -21))
NoConstraints == <<None, None, None>>
FixedAxes == {i \in 1..3 : last_box.constraints[i] # None}

\* C5: after set_target_box with no constraints the three edges of
\* target_box are equal and edge^3 (cm^3) times the density is the mass in
\* grams: the edge is the cube root of mass * 1.66054e-24 / density, in nm.
C5_CubicBox ==
    (last_box # None /\ last_box.constraints = NoConstraints)
    => /\ target_box.items[1] = target_box.items[2]
       /\ target_box.items[2] = target_box.items[3]
       /\ DMul(BoxVolume(target_box.items), density) = MassInGrams

C5_Witness ==
    /\ last_box # None /\ last_box.constraints = NoConstraints
    /\ target_box.items = <<Dec(16, 0), Dec(16, 0), Dec(16, 0)>>
    /\ density = Dec(332108, -5)

\* C6: after set_target_box with one or two fixed edges the free edges
\* hold one value, and the product of the three edges (cm^3) times the
\* density is the mass in grams: the free edge is sqrt(volume / f) with one
\* fixed edge f and volume / (f1 * f2) with two.
C6_ConstrainedBox ==
    (last_box # None /\ Cardinality(FixedAxes) \in {1, 2})
    => /\ \A i \in 1..3, j \in 1..3 :
            (i \notin FixedAxes /\ j \notin FixedAxes)
                => target_box.items[i] = target_box.items[j]
       /\ DMul(BoxVolume(target_box.items), density) = MassInGrams

C6_Witness ==
    /\ last_box # None
    /\ last_box.constraints = <<None, Dec(16, 0), Dec(4, 0)>>
    /\ target_box.items[1] = Dec(64, 0)

\* C7: after set_target_box with constraints, every constrained axis of
\* target_box holds the caller's value in nm, and every other axis holds
\* the length computed from the constraints in cm.
C7_ConstraintsHeld ==
    (last_box # None /\ FixedAxes # {})
    => \A i \in 1..3 :
         IF i \in FixedAxes
         THEN target_box.items[i] = last_box.constraints[i]
         ELSE target_box.items[i] =
                _calculate_L([kind |-> "array", items |->
                    [k \in 1..Cardinality(FixedAxes) |->
                        DMul(WhereNotNone(last_box.constraints)[k], NmToCm)]])

C7_Witness ==
    /\ last_box # None
    /\ last_box.constraints = <<Dec(4, 0), None, Dec(16, 0)>>
    /\ target_box.items = <<Dec(4, 0), Dec(1, 0), Dec(16, 0)>>

\* The typed topology of the latest call as the charge blocks received it.
LastBeforeCharges ==
    IF last_apply.remove_hydrogens THEN RemoveHydrogens(LastTyped).top
    ELSE LastTyped

\* C8: after apply_forcefield has returned, remove_charges leaves every
\* charge zero, also with make_charge_neutral; make_charge_neutral without
\* remove_charges leaves the rescaled charges, atom by atom, and they sum
\* to zero.
C8_ChargeFlags ==
    (Applied /\ ret.outcome = "ok")
    => /\ last_apply.remove_charges
            => \A i \in 1..Len(typed_system.atoms) :
                  typed_system.atoms[i].charge = 0
       /\ (last_apply.make_charge_neutral /\ ~last_apply.remove_charges)
            => /\ Charges(typed_system) =
                    scale_charges(Charges(LastBeforeCharges),
                                  Len(LastBeforeCharges.atoms))
               /\ ISum(Charges(typed_system)) = 0

C8_Witness ==
    /\ Applied /\ ret.outcome = "ok"
    /\ last_apply.make_charge_neutral /\ ~last_apply.remove_charges
    /\ Charges(typed_system) = <<-1120, 1120>>

\* No atom of the topology is a hydrogen by element or by mass.
NoHydrogens(top) ==
    \A i \in 1..Len(top.atoms) :
        top.atoms[i].atomic_number # 1 /\ top.atoms[i].mass # HydrogenMass

\* C9: apply_forcefield with remove_hydrogens on a typed topology without
\* hydrogens warns and does not raise in the removal, removes no atom,
\* leaves the masses (and, without charge flags, the charges) as typed, and
\* stores snapshot, force field and reference values when they are created.
C9_NoHydrogensWarns ==
    (Applied /\ last_apply.remove_hydrogens /\ NoHydrogens(LastTyped))
    => /\ ret.outcome # "IndexError"
       /\ ret.warned
       /\ last_apply.forcefield.name = "polar" => ret.outcome = "ok"
       /\ Len(typed_system.atoms) = Len(LastTyped.atoms)
       /\ Masses(typed_system) = Masses(LastTyped)
       /\ (~last_apply.remove_charges /\ ~last_apply.make_charge_neutral)
            => Charges(typed_system) = Charges(LastTyped)
       /\ ret.outcome = "ok"
            => /\ hoomd_objects # None /\ reference_values # None
               /\ hoomd_objects.init_snap.structure = typed_system

C9_Witness ==
    /\ Applied /\ last_apply.remove_hydrogens /\ NoHydrogens(LastTyped)
    /\ ret.outcome = "ok" /\ ret.warned
    /\ Len(typed_system.atoms) = 2
    /\ hoomd_objects # None

\* The molecules of the first k lists of a nested molecule argument.
RECURSIVE CountBefore(_, _)
CountBefore(items, k) ==
    IF k = 0 THEN 0 ELSE CountBefore(items, k - 1) + Len(items[k])

RECURSIVE ParticlesBefore(_, _)
ParticlesBefore(items, k) ==
    IF k = 0 THEN 0
    ELSE ParticlesBefore(items, k - 1)
         + ISum([j \in 1..Len(items[k]) |-> items[k][j].n_particles])

\* C10: a System constructed from a Molecule or a nested list holds the
\* argument's molecules in input order: molecule j of list k stands after
\* all molecules of the lists before k; n_molecules is their number and
\* n_particles the sum of their n_particles.
C10_Aggregation ==
    LET m == arg.molecule IN
    /\ (phase = "constructed" /\ m.shape = "List")
       => /\ n_molecules = CountBefore(m.items, Len(m.items))
          /\ \A k \in 1..Len(m.items) : \A j \in 1..Len(m.items[k]) :
                molecules[CountBefore(m.items, k - 1) + j] = m.items[k][j]
          /\ n_particles = ParticlesBefore(m.items, Len(m.items))
    /\ (phase = "constructed" /\ m.shape = "Molecule")
       => /\ n_molecules = Len(m.molecules)
          /\ \A j \in 1..Len(m.molecules) : molecules[j] = m.molecules[j]
          /\ n_particles =
                ISum([j \in 1..Len(m.molecules) |-> m.molecules[j].n_particles])

C10_Witness ==
    /\ phase = "constructed"
    /\ arg.molecule.shape = "List"
    /\ arg.molecule.items = <<<<MolA, MolB>>, <<MolA>>>>
    /\ molecules = <<MolA, MolB, MolA>>
    /\ n_particles = 5

\* C11: target_box is absent from construction until the first
\* set_target_box call; after every call, also a repeated one, it holds
\* three strictly positive lengths that the call's constraints and the
\* system's mass and density determine: the constrained axes hold the
\* constraints, the others one common length, and with fewer than three
\* constraints the volume times the density is the mass.
C11_TargetBoxFromLatestCall ==
    /\ last_box = None => target_box = None
    /\ last_box # None
       => /\ Len(target_box.items) = 3
          /\ \A i \in 1..3 : target_box.items[i].m > 0
          /\ \A i \in FixedAxes :
                target_box.items[i] = last_box.constraints[i]
          /\ \A i \in 1..3, j \in 1..3 :
                (i \notin FixedAxes /\ j \notin FixedAxes)
                    => target_box.items[i] = target_box.items[j]
          /\ Cardinality(FixedAxes) < 3
                => DMul(BoxVolume(target_box.items), density) = MassInGrams

C11_Witness ==
    /\ calls.boxed = 2
    /\ last_box.constraints = <<Dec(4, 0), None, Dec(16, 0)>>
    /\ target_box.items = <<Dec(4, 0), Dec(1, 0), Dec(16, 0)>>

\* The atomic numbers of a topology's atoms, and those of the atoms that
\* are not among the given indices, in order.
AtomicNumbers(top) ==
    [i \in 1..Len(top.atoms) |-> top.atoms[i].atomic_number]
AtomicNumbersWithout(top, removed) ==
    SelectSeq([i \in 1..Len(top.atoms) |->
                  IF \E k \in 1..Len(removed) : removed[k] = i THEN -1
                  ELSE top.atoms[i].atomic_number],
              LAMBDA n : n # -1)

\* C12: when apply_forcefield has returned from a call with
\* remove_hydrogens, the topology the snapshot and the force field were
\* created from has no atom of atomic number 1 and has, in order, every
\* atom of the typed topology that was not identified as a hydrogen.
C12_RemovalBeforeCreation ==
    (Applied /\ last_apply.remove_hydrogens /\ ret.outcome = "ok")
    => LET created == hoomd_objects.init_snap.structure IN
       /\ \A i \in 1..Len(created.atoms) :
             created.atoms[i].atomic_number # 1
       /\ AtomicNumbers(created) =
             AtomicNumbersWithout(LastTyped, Hydrogens(LastTyped))
       /\ hoomd_objects.forcefield.n_particles = Len(created.atoms)

C12_Witness ==
    /\ Applied /\ last_apply.remove_hydrogens /\ ret.outcome = "ok"
    /\ AtomicNumbers(LastTyped) = <<6, 1>>
    /\ AtomicNumbers(hoomd_objects.init_snap.structure) = <<6>>

\* The positions among the kept atoms of the atoms whose atomic number is
\* not 1.
NotElementOne(top) ==
    SortedSeq({i \in 1..Len(top.atoms) : top.atoms[i].atomic_number # 1})

\* C13: when apply_forcefield has returned from a call with
\* remove_hydrogens on a typed topology holding an atom of atomic number 1,
\* exactly the atoms of atomic number 1 are gone: an atom of mass 1.008 and
\* another atomic number is still there with its atomic number, and its
\* mass was not handed to a neighbour.
C13_ElementBeforeMass ==
    (/\ Applied /\ last_apply.remove_hydrogens /\ ret.outcome = "ok"
     /\ \E i \in 1..Len(LastTyped.atoms) :
            LastTyped.atoms[i].atomic_number = 1)
    => LET kept == NotElementOne(LastTyped) IN
       /\ Len(typed_system.atoms) = Len(kept)
       /\ \A k \in 1..Len(kept) :
            /\ typed_system.atoms[k].atomic_number =
                   LastTyped.atoms[kept[k]].atomic_number
            /\ typed_system.atoms[k].mass >= LastTyped.atoms[kept[k]].mass

C13_Witness ==
    /\ Applied /\ last_apply.remove_hydrogens /\ ret.outcome = "ok"
    /\ AtomicNumbers(LastTyped) = <<1, 0>>
    /\ Masses(LastTyped) = <<HydrogenMass, HydrogenMass>>
    /\ AtomicNumbers(typed_system) = <<0>>
    /\ Masses(typed_system) = <<2 * HydrogenMass>>

\* C14: when the latest apply_forcefield call succeeded, also after an
\* earlier success, typed_system is what that call's force field and flags
\* make of the untyped assembled system, and the stored snapshot, force
\* field and reference values are the ones created from it.
C14_LatestCallOnly ==
    (last_apply # None /\ last_apply.outcome = "ok")
    => /\ typed_system = AdjustCharges(LastBeforeCharges,
                                      last_apply.remove_charges,
                                      last_apply.make_charge_neutral)
       /\ hoomd_objects.init_snap =
             [kind |-> "snapshot", structure |-> typed_system]
       /\ hoomd_objects.forcefield =
             [kind |-> "forcefield",
              n_particles |-> Len(typed_system.atoms)]
       /\ reference_values =
             [kind |-> "refs", n_particles |-> Len(typed_system.atoms)]

C14_Witness ==
    /\ calls.applied = 2
    /\ Applied /\ ret.outcome = "ok"
    /\ ~last_apply.remove_hydrogens /\ ~last_apply.remove_charges
    /\ ~last_apply.make_charge_neutral
    /\ Len(LastTyped.atoms) = 2
    /\ typed_system = LastTyped

\* C15: a read of the mass property while _build_system runs in the
\* constructor, before the assembly exists, gives the sum of the molecules'
\* masses; once the assembly exists the property gives the assembly's mass.
C15_MassBeforeAndAfterAssembly ==
    phase = "constructed"
    => /\ build_mass = [outcome |-> "ok",
                        value |-> DSum([i \in 1..Len(molecules) |->
                                           molecules[i].mass])]
       /\ MassProperty(system, molecules) =
             [outcome |-> "ok", value |-> system.mass]

\* C16: a set_target_box call with all three edges fixed fails, and
\* target_box never holds a box whose volume times the density is not the
\* mass.
C16_ThreeFixedRejected ==
    (ret.op = "set_target_box" /\ Cardinality(FixedAxes) = 3)
    => /\ ret.outcome # "ok"
       /\ target_box # None
            => DMul(BoxVolume(target_box.items), density) = MassInGrams

\* C17: every apply_forcefield call hands use_residue_map to the force
\* field's apply step as true when the System holds exactly one molecule
\* and as false when it holds none or more than one.
C17_ResidueMapIffOneMolecule ==
    Applied => (last_apply.use_residue_map <=> Len(molecules) = 1)

C17_Witness ==
    /\ Applied /\ ret.outcome = "ok"
    /\ arg.molecule = [shape |-> "List", items |-> <<<<MolB>>>>]
    /\ molecules = <<MolB>>
    /\ last_apply.use_residue_map

\* C18: once apply_forcefield has succeeded, a read of hoomd_snapshot and
\* a read of hoomd_forcefield each return without an error, with the
\* stored objects in place.
C18_ReadsAfterApplyReturn ==
    (calls.applied >= 1 /\ ret.op \in {"hoomd_snapshot", "hoomd_forcefield"})
    => /\ ret.outcome = "ok"
       /\ hoomd_objects # None

\* C19: a step in which apply_forcefield ends with an exception leaves
\* typed_system, the stored hoomd objects and the stored reference values
\* as they were before the call.
C19_AbortLeavesTypedState ==
    [][(ret'.op = "apply_forcefield" /\ ret'.outcome # "ok")
         => UNCHANGED <<typed_system, hoomd_objects, reference_values>>]_vars

\* C20: whatever the order of the set_target_box and apply_forcefield
\* calls made so far, the molecules, the density and the assembled system
\* are the constructor's; target_box is what the latest set_target_box call
\* alone gives, absent if there was none; and after a successful
\* apply_forcefield the typed state is what that call alone gives.
C20_BoxAndTypingIndependent ==
    phase = "constructed"
    => /\ molecules = Aggregate(arg.molecule)
       /\ density = arg.density
       /\ system = arg.build
       /\ last_box = None => target_box = None
       /\ last_box # None
            => target_box = [kind |-> "array", items |->
                               TargetBoxOf(last_box.constraints[1],
                                           last_box.constraints[2],
                                           last_box.constraints[3])]
       /\ last_apply = None
            => /\ typed_system = None /\ hoomd_objects = None
               /\ reference_values = None
       /\ (last_apply # None /\ last_apply.outcome = "ok")
            => /\ typed_system = AdjustCharges(LastBeforeCharges,
                                              last_apply.remove_charges,
                                              last_apply.make_charge_neutral)
               /\ hoomd_objects =
                     [kind |-> "list",
                      init_snap |-> create_hoomd_forcefield(typed_system).init_snap,
                      forcefield |-> create_hoomd_forcefield(typed_system).forcefield]
               /\ reference_values = create_hoomd_forcefield(typed_system).refs

C20_Witness ==
    /\ calls.applied = 2 /\ calls.boxed = 2
    /\ ret.op = "set_target_box"
    /\ last_apply.outcome = "ok" /\ last_apply.remove_hydrogens
    /\ Len(typed_system.atoms) = 1
    /\ hoomd_objects # None
    /\ target_box.items = <<Dec(4, 0), Dec(4, 0), Dec(4, 0)>>

====
